---- MODULE Spec2Model ----
(***************************************************************************)
(* The MPRIS player service of ashell (src/services/mpris/mod.rs): the     *)
(* discovery state machine driven by subscribe(), the snapshot builder,    *)
(* the event multiplexer, the command executor, together with the session  *)
(* bus they talk to and the subscriber that consumes the output channel.   *)
(***************************************************************************)
EXTENDS Integers, Sequences, FiniteSets, TLC

(***************************************************************************)
(* Bounds of the model.                                                    *)
(***************************************************************************)
\* how many changes the players on the bus make in one run
MaxChanges == 2
\* how many bus calls may fail in one run
MaxFaults == 1
\* a run with commands: how many commands the user interface issues, and
\* how many changes the players make
MaxCommands == 1
MaxCommandChanges == 1
\* a run with a slow subscriber: how many changes the player makes
MaxBurst == 10
\* one call of the snapshot builder: how many identities it is given
MaxProbeLen == 3
\* one metadata value on its own: how many artists it lists at most
MaxArtists == 3
\* one join_all on its own: how many identities it is given
MaxJoinLen == 2
MaxGives == 3
MaxSends == 3

(***************************************************************************)
(* Program constants.                                                      *)
(***************************************************************************)
\* channel(10, ...) in subscribe()
ChannelCapacity == 10
\* v * 100.0 and v / 100.0: the percentage of the native volume 1.0
Hundred == 100

MPRIS_PLAYER_SERVICE_PREFIX == "org.mpris.MediaPlayer2."

(***************************************************************************)
(* Bus names.  A name is a pair <<namespace, rest>>, so that starts_with   *)
(* on the namespace prefix is a comparison the model can make.             *)
(***************************************************************************)
PlayerA == <<"org.mpris.MediaPlayer2.", "A">>
PlayerB == <<"org.mpris.MediaPlayer2.", "B">>
Notifier == <<"org.freedesktop.", "Notifications">>

PlayerNames == {PlayerA, PlayerB}
BusNames == PlayerNames \cup {Notifier}
\* an identity that owns no bus connection in any run
PlayerGone == <<"org.mpris.MediaPlayer2.", "Gone">>

starts_with(name, prefix) == name[1] = prefix

(***************************************************************************)
(* Option values: None is the empty sequence, Some(x) the one-element one. *)
(***************************************************************************)
None == <<>>
Some(x) == <<x>>
IsSome(o) == Len(o) = 1
Unwrap(o) == o[1]

(***************************************************************************)
(* Raw metadata property maps as the players publish them                  *)
(* (HashMap<String, OwnedValue>): a key is absent, holds a value of the    *)
(* expected type, or holds a value of another type.                        *)
(***************************************************************************)
Absent == [kind |-> "absent", val |-> <<>>]
Typed(v) == [kind |-> "typed", val |-> v]
Mistyped == [kind |-> "mistyped", val |-> <<>>]

RawFull == [artist |-> Typed(<<"X", "Y">>), title |-> Typed(<<"Song">>)]
RawTitleOnly == [artist |-> Absent, title |-> Typed(<<"Tune">>)]
RawBadArtist == [artist |-> Mistyped, title |-> Typed(<<"Song">>)]

RawMetadataValues == {RawFull, RawTitleOnly}

\* v.clone().try_into(): Ok only for a value of the expected type
try_into(v) == IF v.kind = "typed" THEN Some(v.val) ELSE None

\* impl From<HashMap<String, OwnedValue>> for MprisPlayerMetadata
MprisPlayerMetadataFrom(value) ==
    [artists |-> IF value.artist.kind = "absent" THEN None ELSE try_into(value.artist),
     title |-> IF value.title.kind = "absent" THEN None ELSE try_into(value.title)]

(***************************************************************************)
(* Volumes.  A native volume is the f64 nearest to h/100 for a whole       *)
(* h in 0..100 and is written h.  A percentage is written <<h, u>>: the    *)
(* f64 that lies u units in the last place from the whole number h.        *)
(* v * 100.0 of the native volume h is the whole number h except for the   *)
(* eight h below, where f64 rounds the product one unit above or below.    *)
(***************************************************************************)
RoundsAbove == {7, 14, 28, 55, 56}
RoundsBelow == {29, 57, 58}

\* |v| v * 100.0
TimesHundred(h) ==
    <<h, IF h \in RoundsAbove THEN 1 ELSE IF h \in RoundsBelow THEN -1 ELSE 0>>

NativeVolumeValues == {50, 7}


(***************************************************************************)
(* State.                                                                  *)
(***************************************************************************)
VARIABLES
    \* the session bus: the names that own a connection, each player's
    \* Metadata and Volume property, and the number of changes made so far
    running, metadata, volume, version,
    \* subscribe()'s loop: the State value, the identities Active holds, the
    \* position inside start_listening, the message being sent, the
    \* identities a discovery returned, and the stream events() returned
    state, names, pc, outbox, newNames, mux,
    \* the output channel and the number of messages sent on it
    chan, nSent,
    \* the subscriber: the MprisPlayerService it holds, the number of
    \* messages it received, the command tasks in flight, and the numbers
    \* of commands issued, of tasks performed for them and of proxy calls
    service, nRecv, tasks, cmds, spawned, calls,
    \* the number of bus calls that failed so far
    faults,
    \* what the run allows: the numbers of changes, faults and commands, and
    \* whether a command task keeps the record of the call it made
    budget,
    \* one call of get_mpris_player_data on its own: input and result
    probe,
    \* one join_all of get_mpris_player_data, future by future
    join,
    \* one MprisPlayerMetadata and the text its Display writes
    display,
    \* one Commander of utils: its receiver cell, what give_receiver
    \* returned so far, and the messages sent through its sender
    commander

busVars == <<running, metadata, volume, version>>
loopVars == <<state, names, pc, outbox, newNames, mux>>
chanVars == <<chan, nSent>>
uiVars == <<service, nRecv, tasks, cmds, spawned, calls>>
unitVars == <<probe, join, display, commander>>
vars == <<running, metadata, volume, version, state, names, pc, outbox,
          newNames, mux, chan, nSent, service, nRecv, tasks, cmds, spawned,
          calls, faults, budget, probe, join, display, commander>>

Range(s) == {s[i] : i \in 1..Len(s)}

\* the orders in which the bus may list the set S of names
Orderings(S) ==
    {l \in [1..Cardinality(S) -> S] : \A i, j \in 1..Cardinality(S) : i # j => l[i] # l[j]}

\* dbus.list_names(): the running names, in the order the bus gives them
list_names == Orderings(running)

(***************************************************************************)
(* The outcome of the bus calls made for one name: whether                 *)
(* MprisPlayerProxy::new, proxy.metadata() and proxy.volume() return Ok.   *)
(* A property read can succeed only on a running player; a call that fails *)
(* on a running player is a fault.                                         *)
(***************************************************************************)
CallOutcome(conn, meta, vol) == [conn |-> conn, meta |-> meta, vol |-> vol]
AllOk == CallOutcome(TRUE, TRUE, TRUE)

\* the reads are not made when the proxy did not connect
CallOutcomes ==
    {AllOk, CallOutcome(TRUE, FALSE, TRUE), CallOutcome(TRUE, TRUE, FALSE),
     CallOutcome(TRUE, FALSE, FALSE), CallOutcome(FALSE, FALSE, FALSE)}

IsPlayer(s) == s \in running /\ s \in PlayerNames

PossibleOutcome(s, o) == (o.meta \/ o.vol) => IsPlayer(s)

\* the calls among the three that fail on a running player
FailedCalls(s, o) ==
    IF ~IsPlayer(s) THEN 0
    ELSE IF ~o.conn THEN 1
    ELSE (IF o.meta THEN 0 ELSE 1) + (IF o.vol THEN 0 ELSE 1)

RECURSIVE FaultsIn(_, _)
FaultsIn(S, out) ==
    IF S = {} THEN 0
    ELSE LET s == CHOOSE x \in S : TRUE IN FailedCalls(s, out[s]) + FaultsIn(S \ {s}, out)

\* the outcomes the calls for name s may have when k more faults are allowed
OutcomesFor(s, k) ==
    {o \in CallOutcomes : PossibleOutcome(s, o) /\ FailedCalls(s, o) <= k}

\* the outcomes the calls for the names of S may have when k more faults
\* are allowed
Outcomes(S, k) ==
    {out \in [S -> UNION {OutcomesFor(s, k) : s \in S}] :
        /\ \A s \in S : out[s] \in OutcomesFor(s, k)
        /\ FaultsIn(S, out) <= k}

(***************************************************************************)
(* get_mpris_player_data                                                   *)
(***************************************************************************)
\* the closure's Ok(proxy) arm: one MprisPlayerData
PlayerData(s, o) ==
    [service |-> s,
     metadata |-> IF o.meta THEN Some(MprisPlayerMetadataFrom(metadata[s])) ELSE None,
     volume |-> IF o.vol THEN Some(TimesHundred(volume[s])) ELSE None,
     proxy |-> s]

\* .into_iter().flatten().collect() of a sequence of options
RECURSIVE Flatten(_)
Flatten(opts) ==
    IF opts = <<>> THEN <<>>
    ELSE (IF IsSome(Head(opts)) THEN <<Unwrap(Head(opts))>> ELSE <<>>) \o Flatten(Tail(opts))
\* a variant of JoinAll that also gives up an endpoint whose metadata read
\* failed
JoinAllNeedsMetadata(ns, out) ==
    [i \in 1..Len(ns) |->
        IF out[ns[i]].conn /\ out[ns[i]].meta
        THEN Some(PlayerData(ns[i], out[ns[i]])) ELSE None]

\* one future per name, joined in the order of names
JoinAll(ns, out) ==
    [i \in 1..Len(ns) |->
        IF out[ns[i]].conn THEN Some(PlayerData(ns[i], out[ns[i]])) ELSE None]

get_mpris_player_data(ns, out) == Flatten(JoinAll(ns, out))
\* a variant of PlayerNamesOf that keeps a name once per prefix match and
\* once more when the name is listed first
PlayerNamesOfRepeats(listing) ==
    SelectSeq(listing \o SubSeq(listing, 1, 1),
              LAMBDA a : starts_with(a, MPRIS_PLAYER_SERVICE_PREFIX))

\* the filter_map of initialize_data: the listed names with the prefix
PlayerNamesOf(listing) ==
    SelectSeq(listing, LAMBDA a : starts_with(a, MPRIS_PLAYER_SERVICE_PREFIX))

(***************************************************************************)
(* Messages of the output channel: ServiceEvent::Init or ::Update with the *)
(* snapshot, and the bus version the snapshot was read at.                 *)
(***************************************************************************)
ServiceEvent(tag, data) == [tag |-> tag, data |-> data, obs |-> version]

NoMux == [live |-> FALSE, subs |-> {}, owner |-> 0, meta |-> {}, vol |-> {}]
NoService == [init |-> FALSE, data |-> <<>>, obs |-> 0]
NoProbe == [names |-> <<>>, out |-> <<>>, result |-> <<>>, done |-> FALSE]
NoJoin == [names |-> <<>>, hung |-> {}, fut |-> <<>>, result |-> <<>>, pc |-> "idle"]
NoDisplay == [raw |-> <<>>, value |-> <<>>, text |-> <<>>, pc |-> "idle"]
NoCommander ==
    [receiver |-> <<>>, returned |-> <<>>, queue |-> <<>>, sends |-> <<>>,
     closed |-> FALSE, pc |-> "idle"]

\* the service, its channel and its subscriber after construction, in a
\* run that allows b
Constructed(b) ==
    /\ version = 0
    /\ state = "Init"
    /\ names = <<>>
    /\ pc = "start"
    /\ outbox = None
    /\ newNames = <<>>
    /\ mux = NoMux
    /\ chan = <<>>
    /\ nSent = 0
    /\ service = NoService
    /\ nRecv = 0
    /\ tasks = {}
    /\ cmds = 0
    /\ spawned = 0
    /\ calls = 0
    /\ faults = 0
    /\ budget = b
    /\ probe = NoProbe
    /\ join = NoJoin
    /\ display = NoDisplay
    /\ commander = NoCommander

\* construction on a bus where player A and a name that is no player run
Start(b) ==
    /\ running = {PlayerA, Notifier}
    /\ metadata = [s \in PlayerNames |-> RawFull]
    /\ volume = [s \in PlayerNames |-> 50]
    /\ Constructed(b)

Init == Start([changes |-> MaxChanges, faults |-> MaxFaults, commands |-> 0, trace |-> FALSE])

(***************************************************************************)
(* start_listening, State::Init                                            *)
(***************************************************************************)
\* zbus::Connection::session().await is Ok(conn)
ConnectionSession ==
    /\ state = "Init" /\ pc = "start"
    /\ pc' = "discover"
    /\ UNCHANGED <<state, names, outbox, newNames, mux>>
    /\ UNCHANGED <<busVars, chanVars, uiVars, faults, budget, unitVars>>

\* zbus::Connection::session().await is Err: State::Error
ConnectionSessionFails ==
    /\ state = "Init" /\ pc = "start"
    /\ faults < budget.faults
    /\ faults' = faults + 1
    /\ state' = "Error"
    /\ pc' = "start"
    /\ UNCHANGED <<names, outbox, newNames, mux>>
    /\ UNCHANGED <<busVars, chanVars, uiVars, budget, unitVars>>

\* initialize_data(&conn) is Ok((names, data)): the Init message is built
InitDiscover ==
    /\ state = "Init" /\ pc = "discover"
    /\ \E listing \in list_names :
         LET found == PlayerNamesOf(listing) IN
         \E out \in Outcomes(Range(found), budget.faults - faults) :
            /\ newNames' = found
            /\ outbox' = Some(ServiceEvent("Init", get_mpris_player_data(found, out)))
            /\ faults' = faults + FaultsIn(Range(found), out)
    /\ pc' = "send"
    /\ UNCHANGED <<state, names, mux>>
    /\ UNCHANGED <<busVars, chanVars, uiVars, budget, unitVars>>
\* a variant of InitDiscoverFails that tries the connection again
InitDiscoverFailsRetries ==
    /\ state = "Init" /\ pc = "discover"
    /\ faults < budget.faults
    /\ faults' = faults + 1
    /\ pc' = "start"
    /\ UNCHANGED <<state, names, outbox, newNames, mux>>
    /\ UNCHANGED <<busVars, chanVars, uiVars, budget, unitVars>>

\* initialize_data(&conn) is Err (DBusProxy::new or list_names): State::Error
InitDiscoverFails ==
    /\ state = "Init" /\ pc = "discover"
    /\ faults < budget.faults
    /\ faults' = faults + 1
    /\ state' = "Error"
    /\ pc' = "start"
    /\ UNCHANGED <<names, outbox, newNames, mux>>
    /\ UNCHANGED <<busVars, chanVars, uiVars, budget, unitVars>>
\* a variant of Send that gives the message up when the channel is full
SendOrDrop(msg) ==
    /\ chan' = IF Len(chan) < ChannelCapacity
               THEN Append(chan, [tag |-> msg.tag, data |-> msg.data, obs |-> msg.obs,
                                  seq |-> nSent + 1])
               ELSE chan
    /\ nSent' = nSent + 1

\* output.send(..).await: completes once the channel has a free slot
Send(msg) ==
    /\ Len(chan) < ChannelCapacity
    /\ chan' = Append(chan, [tag |-> msg.tag, data |-> msg.data, obs |-> msg.obs,
                             seq |-> nSent + 1])
    /\ nSent' = nSent + 1

\* output.send(ServiceEvent::Init(..)) and the return of State::Active(conn, names)
SendInit ==
    /\ state = "Init" /\ pc = "send"
    /\ Send(Unwrap(outbox))
    /\ outbox' = None
    /\ state' = "Active"
    /\ names' = newNames
    /\ newNames' = <<>>
    /\ pc' = "start"
    /\ UNCHANGED mux
    /\ UNCHANGED <<busVars, uiVars, faults, budget, unitVars>>

(***************************************************************************)
(* events and start_listening, State::Active                               *)
(***************************************************************************)
\* events(&conn) is Ok: the name-owner stream, and the two property streams
\* of every listed name whose proxy connected
Events ==
    /\ state = "Active" /\ pc = "start"
    /\ \E connected \in SUBSET running :
         LET failed == \E n \in running \ connected : IsPlayer(n) IN
         /\ failed => faults < budget.faults
         /\ mux' = [live |-> TRUE, subs |-> connected, owner |-> 0, meta |-> {}, vol |-> {}]
         /\ faults' = faults + (IF failed THEN 1 ELSE 0)
    /\ pc' = "listen"
    /\ UNCHANGED <<state, names, outbox, newNames>>
    /\ UNCHANGED <<busVars, chanVars, uiVars, budget, unitVars>>
\* a variant of EventsFails that returns State::Active: the loop calls
\* events() again
EventsFailsRetries ==
    /\ state = "Active" /\ pc = "start"
    /\ faults < budget.faults
    /\ faults' = faults + 1
    /\ pc' = "start"
    /\ UNCHANGED <<state, names, outbox, newNames, mux>>
    /\ UNCHANGED <<busVars, chanVars, uiVars, budget, unitVars>>

\* events(&conn) is Err (DBusProxy::new, receive_name_owner_changed or
\* list_names): State::Error
EventsFails ==
    /\ state = "Active" /\ pc = "start"
    /\ faults < budget.faults
    /\ faults' = faults + 1
    /\ state' = "Error"
    /\ pc' = "start"
    /\ UNCHANGED <<names, outbox, newNames, mux>>
    /\ UNCHANGED <<busVars, chanVars, uiVars, budget, unitVars>>
\* a variant of NameOwnerEvent without the return: the while loop goes on
\* with the same stream
NameOwnerEventStays ==
    /\ state = "Active" /\ pc = "listen"
    /\ mux.owner > 0
    /\ mux' = [mux EXCEPT !.owner = @ - 1]
    /\ \E listing \in list_names :
         LET found == PlayerNamesOf(listing) IN
         \E out \in Outcomes(Range(found), budget.faults - faults) :
            /\ newNames' = found
            /\ outbox' = Some(ServiceEvent("Update", get_mpris_player_data(found, out)))
            /\ faults' = faults + FaultsIn(Range(found), out)
    /\ pc' = "sendLoop"
    /\ UNCHANGED <<state, names>>
    /\ UNCHANGED <<busVars, chanVars, uiVars, budget, unitVars>>

\* events.next() is Event::NameOwner and initialize_data is Ok
NameOwnerEvent ==
    /\ state = "Active" /\ pc = "listen"
    /\ mux.owner > 0
    /\ mux' = [mux EXCEPT !.owner = @ - 1]
    /\ \E listing \in list_names :
         LET found == PlayerNamesOf(listing) IN
         \E out \in Outcomes(Range(found), budget.faults - faults) :
            /\ newNames' = found
            /\ outbox' = Some(ServiceEvent("Update", get_mpris_player_data(found, out)))
            /\ faults' = faults + FaultsIn(Range(found), out)
    /\ pc' = "sendReturn"
    /\ UNCHANGED <<state, names>>
    /\ UNCHANGED <<busVars, chanVars, uiVars, budget, unitVars>>
\* a variant of NameOwnerEventFails that gives up: State::Error
NameOwnerEventFailsToError ==
    /\ state = "Active" /\ pc = "listen"
    /\ mux.owner > 0
    /\ faults < budget.faults
    /\ faults' = faults + 1
    /\ mux' = NoMux
    /\ state' = "Error"
    /\ pc' = "start"
    /\ UNCHANGED <<names, outbox, newNames>>
    /\ UNCHANGED <<busVars, chanVars, uiVars, budget, unitVars>>

\* events.next() is Event::NameOwner and initialize_data is Err: logged,
\* the loop goes on with the same stream
NameOwnerEventFails ==
    /\ state = "Active" /\ pc = "listen"
    /\ mux.owner > 0
    /\ faults < budget.faults
    /\ faults' = faults + 1
    /\ mux' = [mux EXCEPT !.owner = @ - 1]
    /\ UNCHANGED <<state, names, pc, outbox, newNames>>
    /\ UNCHANGED <<busVars, chanVars, uiVars, budget, unitVars>>
\* a variant of PropertyEvent that builds the snapshot from the names the
\* bus lists now
PropertyEventRelists ==
    /\ \E listing \in list_names :
         LET found == PlayerNamesOf(listing) IN
         \E out \in Outcomes(Range(found), budget.faults - faults) :
            /\ outbox' = Some(ServiceEvent("Update", get_mpris_player_data(found, out)))
            /\ faults' = faults + FaultsIn(Range(found), out)
    /\ pc' = "sendLoop"
    /\ UNCHANGED <<state, names, newNames>>
    /\ UNCHANGED <<busVars, chanVars, uiVars, budget, unitVars>>

\* the Event::Metadata | Event::Volume arm
PropertyEvent ==
    /\ \E out \in Outcomes(Range(names), budget.faults - faults) :
         /\ outbox' = Some(ServiceEvent("Update", get_mpris_player_data(names, out)))
         /\ faults' = faults + FaultsIn(Range(names), out)
    /\ pc' = "sendLoop"
    /\ UNCHANGED <<state, names, newNames>>
    /\ UNCHANGED <<busVars, chanVars, uiVars, budget, unitVars>>

\* events.next() is Event::Metadata
MetadataEvent ==
    /\ state = "Active" /\ pc = "listen"
    /\ \E n \in mux.meta : mux' = [mux EXCEPT !.meta = @ \ {n}]
    /\ PropertyEvent

\* events.next() is Event::Volume
VolumeEvent ==
    /\ state = "Active" /\ pc = "listen"
    /\ \E n \in mux.vol : mux' = [mux EXCEPT !.vol = @ \ {n}]
    /\ PropertyEvent
\* a variant of SendAndReturn that returns State::Active(conn, names) with
\* the identities it was entered with
SendAndReturnKeepsNames ==
    /\ state = "Active" /\ pc = "sendReturn"
    /\ Send(Unwrap(outbox))
    /\ outbox' = None
    /\ newNames' = <<>>
    /\ mux' = NoMux
    /\ pc' = "start"
    /\ UNCHANGED <<state, names>>
    /\ UNCHANGED <<busVars, uiVars, faults, budget, unitVars>>

\* a variant of SendAndReturn that returns State::Init
SendAndReturnToInit ==
    /\ state = "Active" /\ pc = "sendReturn"
    /\ Send(Unwrap(outbox))
    /\ outbox' = None
    /\ names' = <<>>
    /\ newNames' = <<>>
    /\ mux' = NoMux
    /\ pc' = "start"
    /\ state' = "Init"
    /\ UNCHANGED <<busVars, uiVars, faults, budget, unitVars>>

\* output.send(ServiceEvent::Update(data.1)) and return State::Active(conn, data.0):
\* the stream is dropped with what it still holds
SendAndReturn ==
    /\ state = "Active" /\ pc = "sendReturn"
    /\ Send(Unwrap(outbox))
    /\ outbox' = None
    /\ names' = newNames
    /\ newNames' = <<>>
    /\ mux' = NoMux
    /\ pc' = "start"
    /\ UNCHANGED state
    /\ UNCHANGED <<busVars, uiVars, faults, budget, unitVars>>

\* output.send(ServiceEvent::Update(data)) and the next turn of the while loop
SendAndContinue ==
    /\ state = "Active" /\ pc = "sendLoop"
    /\ Send(Unwrap(outbox))
    /\ outbox' = None
    /\ pc' = "listen"
    /\ UNCHANGED <<state, names, newNames, mux>>
    /\ UNCHANGED <<busVars, uiVars, faults, budget, unitVars>>

\* events.next() is None (every stream ended): State::Active(conn, names)
EventsEnd ==
    /\ state = "Active" /\ pc = "listen"
    /\ faults < budget.faults
    /\ faults' = faults + 1
    /\ mux' = NoMux
    /\ pc' = "start"
    /\ UNCHANGED <<state, names, outbox, newNames>>
    /\ UNCHANGED <<busVars, chanVars, uiVars, budget, unitVars>>

(***************************************************************************)
(* start_listening, State::Error                                           *)
(***************************************************************************)
\* a variant of ErrorPending whose future is ready: the loop starts over
ErrorRetries ==
    /\ state = "Error" /\ pc # "parked"
    /\ state' = "Init"
    /\ pc' = "start"
    /\ UNCHANGED <<names, outbox, newNames, mux>>
    /\ UNCHANGED <<busVars, chanVars, uiVars, faults, budget, unitVars>>

\* pending::<u8>().next().await: the future is never ready
ErrorPending ==
    /\ state = "Error" /\ pc # "parked"
    /\ pc' = "parked"
    /\ UNCHANGED <<state, names, outbox, newNames, mux>>
    /\ UNCHANGED <<busVars, chanVars, uiVars, faults, budget, unitVars>>


(***************************************************************************)
(* The subscriber: the runtime takes the messages of the output channel in *)
(* order and applies them to the MprisPlayerService the application holds. *)
(***************************************************************************)
\* ReadOnlyService::update: self.data = event
update(svc, data, obs) == [svc EXCEPT !.data = data, !.obs = obs]

Receive ==
    /\ chan # <<>>
    /\ LET m == Head(chan) IN
       service' = IF m.tag = "Init"
                  THEN [init |-> TRUE, data |-> m.data, obs |-> m.obs]
                  ELSE update(service, m.data, m.obs)
    /\ chan' = Tail(chan)
    /\ nRecv' = nRecv + 1
    /\ UNCHANGED <<nSent, tasks, cmds, spawned, calls>>
    /\ UNCHANGED <<busVars, loopVars, faults, budget, unitVars>>

(***************************************************************************)
(* Service::command                                                        *)
(***************************************************************************)
PlayerCommand(kind, v) == [kind |-> kind, v |-> v]
\* the percentages the user interface asks for
CommandVolumes == {<<75, 0>>}
PlayerCommands ==
    {PlayerCommand(k, <<>>) : k \in {"Prev", "PlayPause", "Next"}}
        \cup {PlayerCommand("Volume", v) : v \in CommandVolumes}

\* self.data.iter().map(|d| d.service.clone()).collect()
ServiceNames(data) == [i \in 1..Len(data) |-> data[i].service]

\* self.data.iter().find(|d| d.service == service_name): the first match
Find(data, service_name) ==
    LET hits == {i \in 1..Len(data) : data[i].service = service_name} IN
    IF hits = {} THEN None
    ELSE Some(data[CHOOSE i \in hits : \A j \in hits : i <= j])
\* a variant of CommandTasks that performs the task whether or not the
\* target is in the snapshot
CommandTasksAlways(data, target, c, id) ==
    {[id |-> id, proxy |-> target, command |-> c,
      names |-> ServiceNames(data), pc |-> "call", called |-> None,
      result |-> <<>>, obs |-> 0]}

\* the iced::Task the command returns: Task::perform for a known target,
\* Task::none() otherwise
CommandTasks(data, target, c, id) ==
    LET s == Find(data, target) IN
    IF IsSome(s)
    THEN {[id |-> id, proxy |-> Unwrap(s).proxy, command |-> c,
           names |-> ServiceNames(data), pc |-> "call", called |-> None,
      result |-> <<>>, obs |-> 0]}
    ELSE {}

command(target, c) ==
    /\ service.init
    /\ cmds < budget.commands
    /\ cmds' = cmds + 1
    /\ tasks' = tasks \cup CommandTasks(service.data, target, c, cmds + 1)
    /\ spawned' = spawned + Cardinality(CommandTasks(service.data, target, c, cmds + 1))
    /\ UNCHANGED <<service, nRecv, calls>>
    /\ UNCHANGED <<busVars, loopVars, chanVars, faults, budget, unitVars>>

\* the signal a change of property q ("meta" or "vol") of player n sends to
\* the streams of the multiplexer
PropertyChanged(m, n, q) ==
    IF m.live /\ n \in m.subs
    THEN (IF q = "meta" THEN [m EXCEPT !.meta = @ \cup {n}] ELSE [m EXCEPT !.vol = @ \cup {n}])
    ELSE m
\* a variant of DivHundred that passes the percentage on unscaled
DivHundredOmitted(v) == v[1] * Hundred

\* v / 100.0: the f64 nearest to the hundredth of the percentage, which
\* for a percentage within one unit in the last place of the whole number
\* h is the native volume h
DivHundred(v) == v[1]

\* a variant of ProxyMethod in which the Next arm calls previous()
ProxyMethodNextIsPrevious(proxy, c) ==
    [proxy |-> proxy,
     method |-> IF c.kind = "Prev" THEN "previous"
                ELSE IF c.kind = "PlayPause" THEN "play_pause"
                ELSE IF c.kind = "Next" THEN "previous"
                ELSE "set_volume",
     arg |-> IF c.kind = "Volume" THEN <<DivHundred(c.v)>> ELSE <<>>]

\* match command.command: the method called on the proxy and its argument
ProxyMethod(proxy, c) ==
    [proxy |-> proxy,
     method |-> IF c.kind = "Prev" THEN "previous"
                ELSE IF c.kind = "PlayPause" THEN "play_pause"
                ELSE IF c.kind = "Next" THEN "next"
                ELSE "set_volume",
     arg |-> IF c.kind = "Volume" THEN <<DivHundred(c.v)>> ELSE <<>>]

\* the task after its proxy call: the command and the proxy are consumed,
\* conn and names are what the rest of the future holds; called is the
\* call the task has made
Called(t) ==
    [t EXCEPT !.pc = "build", !.command = <<>>, !.proxy = <<>>,
              !.called = IF budget.trace THEN Some(ProxyMethod(t.proxy, t.command))
                         ELSE None]

\* the proxy call of the task's command returns Ok
ProxyCall(t) ==
    /\ t \in tasks /\ t.pc = "call"
    /\ IsPlayer(t.proxy)
    /\ LET m == ProxyMethod(t.proxy, t.command) IN
       IF m.method = "set_volume" /\ volume[t.proxy] # m.arg[1]
       THEN /\ volume' = [volume EXCEPT ![t.proxy] = m.arg[1]]
            /\ version' = version + 1
            /\ mux' = PropertyChanged(mux, t.proxy, "vol")
       ELSE UNCHANGED <<volume, version, mux>>
    /\ calls' = calls + 1
    /\ tasks' = (tasks \ {t}) \cup {Called(t)}
    /\ UNCHANGED <<running, metadata, state, names, pc, outbox, newNames>>
    /\ UNCHANGED <<service, nRecv, cmds, spawned>>
    /\ UNCHANGED <<chanVars, faults, budget, unitVars>>

\* the proxy call returns Err: logged by inspect_err and dropped
ProxyCallFails(t) ==
    /\ t \in tasks /\ t.pc = "call"
    /\ IsPlayer(t.proxy) => faults < budget.faults
    /\ faults' = faults + (IF IsPlayer(t.proxy) THEN 1 ELSE 0)
    /\ calls' = calls + 1
    /\ tasks' = (tasks \ {t}) \cup {Called(t)}
    /\ UNCHANGED <<service, nRecv, cmds, spawned>>
    /\ UNCHANGED <<busVars, loopVars, chanVars, budget, unitVars>>

\* Self::get_mpris_player_data(&conn, &names).await at the end of the task
TaskSnapshot(t) ==
    /\ t \in tasks /\ t.pc = "build"
    /\ \E out \in Outcomes(Range(t.names), budget.faults - faults) :
         /\ tasks' = (tasks \ {t}) \cup
                {[t EXCEPT !.pc = "done",
                           !.result = get_mpris_player_data(t.names, out),
                           !.obs = version]}
         /\ faults' = faults + FaultsIn(Range(t.names), out)
    /\ UNCHANGED <<service, nRecv, cmds, spawned, calls>>
    /\ UNCHANGED <<busVars, loopVars, chanVars, budget, unitVars>>

\* the task's ServiceEvent::Update reaches update()
TaskUpdate(t) ==
    /\ t \in tasks /\ t.pc = "done"
    /\ service' = update(service, t.result, t.obs)
    /\ tasks' = tasks \ {t}
    /\ UNCHANGED <<nRecv, cmds, spawned, calls>>
    /\ UNCHANGED <<busVars, loopVars, chanVars, faults, budget, unitVars>>

(***************************************************************************)
(* The players on the bus.                                                 *)
(***************************************************************************)
\* the NameOwnerChanged signal for name n, through the filter_map of events
NameOwnerChanged(m, n) ==
    IF m.live /\ starts_with(n, MPRIS_PLAYER_SERVICE_PREFIX)
    THEN [m EXCEPT !.owner = @ + 1]
    ELSE m

PlayerAppears(n) ==
    /\ version < budget.changes
    /\ n \notin running
    /\ running' = running \cup {n}
    /\ version' = version + 1
    /\ mux' = NameOwnerChanged(mux, n)
    /\ UNCHANGED <<metadata, volume, state, names, pc, outbox, newNames>>
    /\ UNCHANGED <<chanVars, uiVars, faults, budget, unitVars>>

PlayerDisappears(n) ==
    /\ version < budget.changes
    /\ n \in running
    /\ running' = running \ {n}
    /\ version' = version + 1
    /\ mux' = NameOwnerChanged(mux, n)
    /\ UNCHANGED <<metadata, volume, state, names, pc, outbox, newNames>>
    /\ UNCHANGED <<chanVars, uiVars, faults, budget, unitVars>>

MetadataChanges(n, raw) ==
    /\ version < budget.changes
    /\ IsPlayer(n)
    /\ raw # metadata[n]
    /\ metadata' = [metadata EXCEPT ![n] = raw]
    /\ version' = version + 1
    /\ mux' = PropertyChanged(mux, n, "meta")
    /\ UNCHANGED <<running, volume, state, names, pc, outbox, newNames>>
    /\ UNCHANGED <<chanVars, uiVars, faults, budget, unitVars>>

VolumeChanges(n, h) ==
    /\ version < budget.changes
    /\ IsPlayer(n)
    /\ h # volume[n]
    /\ volume' = [volume EXCEPT ![n] = h]
    /\ version' = version + 1
    /\ mux' = PropertyChanged(mux, n, "vol")
    /\ UNCHANGED <<running, metadata, state, names, pc, outbox, newNames>>
    /\ UNCHANGED <<chanVars, uiVars, faults, budget, unitVars>>

(***************************************************************************)
(* The service with its bus and its subscriber.                            *)
(***************************************************************************)
Loop ==
    \/ ConnectionSession \/ ConnectionSessionFails
    \/ InitDiscover \/ InitDiscoverFails \/ SendInit
    \/ Events \/ EventsFails
    \/ NameOwnerEvent \/ NameOwnerEventFails
    \/ MetadataEvent \/ VolumeEvent
    \/ SendAndReturn \/ SendAndContinue
    \/ EventsEnd
    \/ ErrorPending

Bus ==
    \/ \E n \in BusNames : PlayerAppears(n)
    \/ \E n \in BusNames : PlayerDisappears(n)
    \/ \E n \in PlayerNames, raw \in RawMetadataValues : MetadataChanges(n, raw)
    \/ \E n \in PlayerNames, h \in NativeVolumeValues : VolumeChanges(n, h)

\* the service and its subscriber on a bus whose calls may fail
Next == Loop \/ Receive \/ Bus

Spec == Init /\ [][Next]_vars

(***************************************************************************)
(* The service with a user interface that issues commands, on a bus whose  *)
(* calls succeed on every running player.                                  *)
(***************************************************************************)
InitCommands ==
    Start([changes |-> MaxCommandChanges, faults |-> 0, commands |-> MaxCommands, trace |-> FALSE])

LoopNoFault ==
    \/ ConnectionSession
    \/ InitDiscover \/ SendInit
    \/ Events
    \/ NameOwnerEvent
    \/ MetadataEvent \/ VolumeEvent
    \/ SendAndReturn \/ SendAndContinue

CommandsNoFault ==
    \/ \E target \in BusNames, c \in PlayerCommands : command(target, c)
    \/ \E t \in tasks : ProxyCall(t)
    \/ \E t \in tasks : ProxyCallFails(t)
    \/ \E t \in tasks : TaskSnapshot(t)
    \/ \E t \in tasks : TaskUpdate(t)

NextCommands == LoopNoFault \/ Receive \/ CommandsNoFault \/ Bus

SpecCommands == InitCommands /\ [][NextCommands]_vars


(***************************************************************************)
(* The command executor next to players that come and go, before the loop  *)
(* builds its multiplexer: the bus calls may fail, and every task keeps    *)
(* the record of the call it made.                                         *)
(***************************************************************************)
InitExecutor ==
    Start([changes |-> MaxCommandChanges, faults |-> MaxFaults,
           commands |-> MaxCommands, trace |-> TRUE])

Tasks ==
    \/ \E t \in tasks : ProxyCall(t)
    \/ \E t \in tasks : ProxyCallFails(t)
    \/ \E t \in tasks : TaskSnapshot(t)
    \/ \E t \in tasks : TaskUpdate(t)

NextExecutor ==
    \/ ConnectionSession \/ InitDiscover \/ SendInit
    \/ Receive
    \/ \E target \in BusNames, c \in PlayerCommands : command(target, c)
    \/ Tasks
    \/ \E n \in PlayerNames : PlayerAppears(n)
    \/ \E n \in PlayerNames : PlayerDisappears(n)

SpecExecutor == InitExecutor /\ [][NextExecutor]_vars

(***************************************************************************)
(* Volume commands for every percentage, on a bus where nothing else       *)
(* changes and no call fails.                                              *)
(***************************************************************************)
Percentages == 0..Hundred

InitVolume ==
    Start([changes |-> 0, faults |-> 0, commands |-> MaxCommands, trace |-> TRUE])

NextVolume ==
    \/ ConnectionSession \/ InitDiscover \/ SendInit
    \/ Receive
    \/ \E target \in PlayerNames, p \in Percentages :
            command(target, PlayerCommand("Volume", <<p, 0>>))
    \/ \E t \in tasks : ProxyCall(t)
    \/ \E t \in tasks : TaskSnapshot(t)
    \/ \E t \in tasks : TaskUpdate(t)

SpecVolume == InitVolume /\ [][NextVolume]_vars


(***************************************************************************)
(* The service with a subscriber that may fall behind, next to one player  *)
(* whose volume keeps changing.                                            *)
(***************************************************************************)
InitBurst == Start([changes |-> MaxBurst, faults |-> 0, commands |-> 0, trace |-> FALSE])

NextBurst ==
    \/ ConnectionSession
    \/ InitDiscover \/ SendInit
    \/ Events
    \/ VolumeEvent
    \/ SendAndContinue
    \/ Receive
    \/ \E h \in NativeVolumeValues : VolumeChanges(PlayerA, h)

SpecBurst == InitBurst /\ [][NextBurst]_vars

(***************************************************************************)
(* get_mpris_player_data on its own: one call, on any bus, for any list of *)
(* distinct identities and any outcome of its bus calls.                   *)
(***************************************************************************)
ProbeNames == BusNames \cup {PlayerGone}

\* the lists of distinct identities of length n
DistinctLists(n) ==
    {l \in [1..n -> ProbeNames] : \A i, j \in 1..n : i # j => l[i] # l[j]}

InitBuilder ==
    /\ running \in SUBSET BusNames
    /\ metadata \in [PlayerNames -> {RawFull, RawBadArtist}]
    /\ volume \in [PlayerNames -> NativeVolumeValues]
    /\ Constructed([changes |-> 0, faults |-> 0, commands |-> 0, trace |-> FALSE])

BuildSnapshot ==
    /\ ~probe.done
    /\ \E n \in 0..MaxProbeLen :
         \E ns \in DistinctLists(n) :
            \E out \in Outcomes(Range(ns), 2 * n) :
               probe' = [names |-> ns, out |-> out,
                         result |-> get_mpris_player_data(ns, out), done |-> TRUE]
    /\ UNCHANGED <<busVars, loopVars, chanVars, uiVars, faults, budget>>
    /\ UNCHANGED <<join, display, commander>>

SpecBuilder == InitBuilder /\ [][BuildSnapshot]_vars


(***************************************************************************)
(* impl Display for MprisPlayerMetadata on its own: one metadata value     *)
(* converted from any raw property map, then written.  A string is the     *)
(* sequence of its pieces; an artist name is one piece.                    *)
(***************************************************************************)
ArtistNames == {"X", "Y"}
TitleValues == {<<>>, <<"Song">>, <<"A", " - ", "B">>}

ArtistLists == UNION {[1..n -> ArtistNames] : n \in 0..MaxArtists}
RawArtistValues == {Absent, Mistyped} \cup {Typed(a) : a \in ArtistLists}
RawTitleValues == {Absent, Mistyped} \cup {Typed(t) : t \in TitleValues}

\* a.join(sep): the elements of a with sep between neighbours
RECURSIVE Join(_, _)
Join(a, sep) ==
    IF a = <<>> THEN <<>>
    ELSE IF Len(a) = 1 THEN <<a[1]>>
    ELSE <<a[1]>> \o sep \o Join(Tail(a), sep)
\* a variant of fmt that writes the title before the artists
fmtTitleFirst(m) ==
    IF m.artists = None /\ m.title = None THEN <<>>
    ELSE IF m.artists = None THEN Unwrap(m.title)
    ELSE IF m.title = None THEN Join(Unwrap(m.artists), <<", ">>)
    ELSE Unwrap(m.title) \o <<" - ">> \o Join(Unwrap(m.artists), <<", ">>)

\* Display::fmt: the match on (artists, title)
fmt(m) ==
    IF m.artists = None /\ m.title = None THEN <<>>
    ELSE IF m.artists = None THEN Unwrap(m.title)
    ELSE IF m.title = None THEN Join(Unwrap(m.artists), <<", ">>)
    ELSE Join(Unwrap(m.artists), <<", ">>) \o <<" - ">> \o Unwrap(m.title)

InitUnit == Start([changes |-> 0, faults |-> 0, commands |-> 0, trace |-> FALSE])

\* MprisPlayerMetadata::from(raw) for any raw property map
NewMetadata ==
    /\ display.pc = "idle"
    /\ \E ra \in RawArtistValues, rt \in RawTitleValues :
         LET raw == [artist |-> ra, title |-> rt] IN
         display' = [raw |-> raw, value |-> MprisPlayerMetadataFrom(raw),
                     text |-> <<>>, pc |-> "made"]
    /\ UNCHANGED <<busVars, loopVars, chanVars, uiVars, faults, budget>>
    /\ UNCHANGED <<probe, join, commander>>

\* write!(f, "{}", t) of the value
Format ==
    /\ display.pc = "made"
    /\ display' = [display EXCEPT !.text = fmt(display.value), !.pc = "shown"]
    /\ UNCHANGED <<busVars, loopVars, chanVars, uiVars, faults, budget>>
    /\ UNCHANGED <<probe, join, commander>>

SpecDisplay == InitUnit /\ [][NewMetadata \/ Format]_vars


(***************************************************************************)
(* The join_all of get_mpris_player_data on its own, future by future: one *)
(* future per identity, each awaiting MprisPlayerProxy::new, metadata()    *)
(* and volume() in turn.  A call to a hung endpoint returns only by its    *)
(* timeout, as an error.                                                   *)
(***************************************************************************)
\* a future of the closure: the call it awaits and the results so far
Future(at, o) == [pc |-> at, out |-> o]

\* a variant of Polled that awaits the futures one after the other
PolledInTurn(i) ==
    /\ join.pc = "polling"
    /\ i \in 1..Len(join.fut)
    /\ join.fut[i].pc # "ready"
    /\ \A j \in 1..(i - 1) : join.fut[j].pc = "ready"

\* join_all polls every future that is not ready
Polled(i) ==
    /\ join.pc = "polling"
    /\ i \in 1..Len(join.fut)
    /\ join.fut[i].pc # "ready"

\* get_mpris_player_data is called: join_all over one future per name
JoinAllStart ==
    /\ join.pc = "idle"
    /\ \E n \in 0..MaxJoinLen :
         \E ns \in DistinctLists(n) :
            \E h \in {x \in SUBSET Range(ns) : Cardinality(x) <= 1} :
               join' = [names |-> ns, hung |-> h,
                        fut |-> [i \in 1..n |-> Future("new", CallOutcome(FALSE, FALSE, FALSE))],
                        result |-> <<>>, pc |-> "polling"]
    /\ UNCHANGED <<busVars, loopVars, chanVars, uiVars, faults, budget>>
    /\ UNCHANGED <<probe, display, commander>>

\* the future after the call it awaits returned Ok (ok) or Err
Resumed(f, ok) ==
    IF f.pc = "new"
    THEN (IF ok THEN Future("meta", [f.out EXCEPT !.conn = TRUE]) ELSE Future("ready", f.out))
    ELSE IF f.pc = "meta" THEN Future("vol", [f.out EXCEPT !.meta = ok])
    ELSE Future("ready", [f.out EXCEPT !.vol = ok])

\* the call that future i awaits returns: Ok from a responsive endpoint (a
\* property read only from a running player), Err otherwise
CallReturns(i, ok) ==
    /\ Polled(i)
    /\ ok => join.names[i] \notin join.hung
    /\ (ok /\ join.fut[i].pc # "new") => IsPlayer(join.names[i])
    /\ join' = [join EXCEPT !.fut[i] = Resumed(join.fut[i], ok)]
    /\ UNCHANGED <<busVars, loopVars, chanVars, uiVars, faults, budget>>
    /\ UNCHANGED <<probe, display, commander>>

\* every future is ready: .await.into_iter().flatten().collect()
JoinAllReady ==
    /\ join.pc = "polling"
    /\ \A i \in 1..Len(join.fut) : join.fut[i].pc = "ready"
    /\ LET out == [s \in Range(join.names) |->
                        join.fut[CHOOSE i \in 1..Len(join.names) : join.names[i] = s].out]
       IN  join' = [join EXCEPT !.result = get_mpris_player_data(join.names, out),
                                !.pc = "done"]
    /\ UNCHANGED <<busVars, loopVars, chanVars, uiVars, faults, budget>>
    /\ UNCHANGED <<probe, display, commander>>

NextJoin ==
    \/ JoinAllStart
    \/ \E i \in 1..MaxJoinLen, ok \in BOOLEAN : CallReturns(i, ok)
    \/ JoinAllReady

SpecJoin == InitUnit /\ [][NextJoin]_vars

\* every call returns in the end, with a value or with the timeout error
SpecJoinFair ==
    /\ SpecJoin
    /\ \A i \in 1..MaxJoinLen : WF_vars(\E ok \in BOOLEAN : CallReturns(i, ok))
    /\ WF_vars(JoinAllReady)


(***************************************************************************)
(* Commander<T> on its own: an unbounded channel whose sending end the     *)
(* Commander derefs to and whose receiving end sits in a RefCell<Option>.  *)
(* returned lists what the calls of give_receiver returned, sends the      *)
(* result of each send with the number of give_receiver calls before it.   *)
(* The caller that was given the receiver may receive from it and drop it. *)
(***************************************************************************)
\* the values of T sent through a Commander
CommanderMessages == {"m1", "m2"}

\* Commander::new()
CommanderNew ==
    /\ commander.pc = "idle"
    /\ commander' = [commander EXCEPT !.receiver = Some("receiver"), !.pc = "live"]
    /\ UNCHANGED <<busVars, loopVars, chanVars, uiVars, faults, budget>>
    /\ UNCHANGED <<probe, join, display>>

\* a variant of give_receiver that hands out the receiver and keeps it
give_receiverKeeps ==
    /\ commander.pc = "live"
    /\ Len(commander.returned) < MaxGives
    /\ commander' = [commander EXCEPT !.returned = Append(@, commander.receiver)]
    /\ UNCHANGED <<busVars, loopVars, chanVars, uiVars, faults, budget>>
    /\ UNCHANGED <<probe, join, display>>

\* give_receiver: self.receiver.borrow_mut().take()
give_receiver ==
    /\ commander.pc = "live"
    /\ Len(commander.returned) < MaxGives
    /\ commander' = [commander EXCEPT !.returned = Append(@, commander.receiver),
                                      !.receiver = None]
    /\ UNCHANGED <<busVars, loopVars, chanVars, uiVars, faults, budget>>
    /\ UNCHANGED <<probe, join, display>>

\* commander.send(m) through Deref: Ok and queued while the receiver
\* exists, Err once it was dropped
CommanderSend(m) ==
    /\ commander.pc = "live"
    /\ Len(commander.sends) < MaxSends
    /\ commander' =
         [commander EXCEPT
            !.queue = IF commander.closed THEN @ ELSE Append(@, m),
            !.sends = Append(@, [ok |-> ~commander.closed,
                                 gives |-> Len(commander.returned)])]
    /\ UNCHANGED <<busVars, loopVars, chanVars, uiVars, faults, budget>>
    /\ UNCHANGED <<probe, join, display>>

\* the caller that was given the receiver holds it
ReceiverGiven ==
    /\ ~commander.closed
    /\ \E i \in 1..Len(commander.returned) : IsSome(commander.returned[i])

\* the holder of the receiver takes the oldest message
CommanderRecv ==
    /\ ReceiverGiven
    /\ commander.queue # <<>>
    /\ commander' = [commander EXCEPT !.queue = Tail(@)]
    /\ UNCHANGED <<busVars, loopVars, chanVars, uiVars, faults, budget>>
    /\ UNCHANGED <<probe, join, display>>

\* the holder of the receiver drops it: the channel is closed
CommanderDropReceiver ==
    /\ ReceiverGiven
    /\ commander' = [commander EXCEPT !.queue = <<>>, !.closed = TRUE]
    /\ UNCHANGED <<busVars, loopVars, chanVars, uiVars, faults, budget>>
    /\ UNCHANGED <<probe, join, display>>

NextCommander ==
    \/ CommanderNew
    \/ give_receiver
    \/ \E m \in CommanderMessages : CommanderSend(m)
    \/ CommanderRecv
    \/ CommanderDropReceiver

SpecCommander == InitUnit /\ [][NextCommander]_vars


(***************************************************************************)
(* Properties of the discovery state machine.                              *)
(***************************************************************************)
\* the message start_listening holds in a send that has not completed
Sending(tag) == IsSome(outbox) /\ Unwrap(outbox).tag = tag

\* C1: on the output channel the first message, and only the first, is
\* Init: every message in the channel is Init exactly if it is message
\* number 1, an Init about to be sent has no message before it, an Update
\* about to be sent has one, and the subscriber holds a service exactly if
\* it has received a message.
C1_OneInitFirst ==
    /\ \A i \in 1..Len(chan) : (chan[i].tag = "Init") <=> (chan[i].seq = 1)
    /\ Sending("Init") => nSent = 0
    /\ Sending("Update") => nSent >= 1
    /\ service.init <=> nRecv >= 1

\* an Update has been delivered after the Init
C1_Witness == service.init /\ nRecv >= 2

\* what C2 asks of one step
C2_InitFailureStep ==
    /\ (ConnectionSessionFails \/ InitDiscoverFails) =>
            (state' = "Error" /\ nSent' = 0 /\ chan' = <<>>)
    /\ (state = "Init" /\ state' # "Init" /\ nSent' = 0) => state' = "Error"
    /\ (state = "Error" /\ nSent = 0) =>
            (state' = "Error" /\ nSent' = 0 /\ chan' = <<>> /\ nRecv' = 0 /\ ~service.init')

\* C2: a step from Init in which the bus connection or the discovery fails
\* ends in Error, and in Error with nothing sent so far nothing is sent or
\* delivered afterwards.
C2_InitFailureIsSilent == [][C2_InitFailureStep]_vars

\* the machine failed from Init and is parked
C2_Witness == state = "Error" /\ pc = "parked" /\ nSent = 0 /\ faults = 1

\* what C3 asks of one step
C3_ErrorStep ==
    state = "Error" =>
        /\ state' = "Error"
        /\ pc' \in {pc, "parked"}
        /\ pc = "parked" => pc' = "parked"
        /\ nSent' = nSent
        /\ Len(chan') <= Len(chan)
        /\ faults' = faults
        /\ UNCHANGED <<names, outbox, newNames, mux>>

\* C3: in Error the machine stays in Error, the step that started there
\* parks and never completes, nothing more is sent, and no bus call is
\* made (none fails, the identities and the multiplexer are untouched).
C3_ErrorIsTerminal == [][C3_ErrorStep]_vars

\* the machine reached Error from Active, parked, and the bus went on
C3_Witness == state = "Error" /\ pc = "parked" /\ nSent >= 1 /\ version >= 1

\* what C4 asks of one step
C4_LeavesActiveStep ==
    (state = "Active" /\ state' # "Active") =>
        (pc = "start" /\ ~mux.live /\ state' = "Error" /\ faults' = faults + 1)

\* C4: the only step that leaves Active is the failure of events(): it
\* starts where the multiplexer is about to be built, fails one bus call
\* and ends in Error; every other step, whatever the players do and
\* whichever call for an endpoint fails, keeps the state Active.
C4_ActiveStaysActive == [][C4_LeavesActiveStep]_vars

\* still Active and listening after a change of the players and a failed
\* bus call
C4_Witness ==
    state = "Active" /\ pc = "listen" /\ version >= 2 /\ faults >= 1 /\ nSent >= 2


(***************************************************************************)
(* Properties of the command executor and of the snapshot builder.         *)
(***************************************************************************)
\* a call of command() whose target is in no entry of the snapshot
AbsentCommand ==
    \E target \in BusNames, c \in PlayerCommands :
        command(target, c) /\ Find(service.data, target) = None

\* C5 as stated: a command for an absent target leaves the entries as they
\* are, makes no proxy call and triggers exactly one Update.
C5_AbsentCommandRepublishes ==
    [][AbsentCommand =>
        /\ ServiceNames(service'.data) = ServiceNames(service.data)
        /\ calls' = calls
        /\ spawned' = spawned + 1
        /\ Cardinality(tasks') = Cardinality(tasks) + 1]_vars

\* C5 as amended: a command for an absent target leaves the snapshot as it
\* is, makes no proxy call and triggers no Update: no task is performed
\* and nothing is sent.
C5_AbsentCommandIsNoOp ==
    [][AbsentCommand =>
        /\ service' = service
        /\ calls' = calls
        /\ spawned' = spawned
        /\ tasks' = tasks
        /\ UNCHANGED <<chan, nSent, outbox>>]_vars

\* a command was issued for which no task was performed
C5_Witness == cmds = 1 /\ spawned = 0 /\ tasks = {} /\ service.init

\* the identities of ns whose proxy connected, in the order of ns
Connected(ns, out) == SelectSeq(ns, LAMBDA s : out[s].conn)

\* C6: the builder's result has one entry per identity whose proxy
\* connected, N - K of them, in the order of the input; an entry's field is
\* absent exactly if its read failed and holds the converted value of the
\* player otherwise.
C6_BuilderKeepsConnected ==
    probe.done =>
        LET ns == probe.names
            out == probe.out
            r == probe.result
            K == Cardinality({s \in Range(ns) : ~out[s].conn})
        IN  /\ Len(r) = Len(ns) - K
            /\ ServiceNames(r) = Connected(ns, out)
            /\ \A i \in 1..Len(r) :
                 LET s == r[i].service IN
                 /\ r[i].proxy = s
                 /\ r[i].metadata =
                        (IF out[s].meta THEN Some(MprisPlayerMetadataFrom(metadata[s])) ELSE None)
                 /\ r[i].volume =
                        (IF out[s].vol THEN Some(TimesHundred(volume[s])) ELSE None)

\* three identities, one that did not connect and one that connected and
\* whose metadata read failed
C6_Witness ==
    /\ probe.done
    /\ Len(probe.names) = 3
    /\ Len(probe.result) = 2
    /\ \E i \in 1..2 : probe.result[i].metadata = None /\ IsSome(probe.result[i].volume)


(***************************************************************************)
(* Properties of what the subscriber sees.                                 *)
(***************************************************************************)
\* what a snapshot of the running players holds when every call succeeds
CurrentViews ==
    {get_mpris_player_data(PlayerNamesOf(l), [s \in Range(PlayerNamesOf(l)) |-> AllOk]) :
        l \in list_names}

\* the loop waits on a multiplexer that holds no event, with nothing to send
Quiescent ==
    /\ state = "Active" /\ pc = "listen"
    /\ mux.live /\ mux.owner = 0 /\ mux.meta = {} /\ mux.vol = {}
    /\ outbox = None

\* the snapshot published last
LastPublished == IF chan # <<>> THEN chan[Len(chan)].data ELSE service.data

\* C7: when no bus call has failed and every pending event is processed,
\* the snapshot published last is the state of the running players.
C7_SnapshotNeverStale == (Quiescent /\ faults = 0) => LastPublished \in CurrentViews

\* C8: the subscriber never replaces a snapshot by a different one read
\* from the bus at an earlier time.
C8_UpdatesInOrder == [][service'.obs < service.obs => service'.data = service.data]_vars

\* C9, safety: the channel holds at most ChannelCapacity messages; the
\* messages sent are numbered as built and the channel holds exactly those
\* sent and not yet received, in order.
C9_InSequence ==
    /\ Len(chan) <= ChannelCapacity
    /\ nSent = nRecv + Len(chan)
    /\ \A i \in 1..Len(chan) : chan[i].seq = nRecv + i

\* C9, blocking: while the channel is full and a message waits in send, the
\* loop keeps the message, stays where it is and takes no event
C9_BlockedStep ==
    (Len(chan) = ChannelCapacity /\ IsSome(outbox)) =>
        /\ outbox' = outbox
        /\ pc' = pc
        /\ nSent' = nSent
        /\ mux.vol \subseteq mux'.vol /\ mux.meta \subseteq mux'.meta /\ mux.owner <= mux'.owner

\* C9: the channel is bounded and in sequence, a full channel blocks the
\* loop, every snapshot built for publication is sent, and the subscriber
\* catches up with the messages sent again and again (the counts only
\* grow, so every message sent is received).
C9_BackpressureNoLoss ==
    /\ []C9_InSequence
    /\ [][C9_BlockedStep]_vars
    /\ (IsSome(outbox) ~> outbox = None)
    /\ []<>(outbox = None /\ nRecv = nSent)

\* the channel is full and the loop waits in send with one more snapshot
C9_Witness == Len(chan) = ChannelCapacity /\ IsSome(outbox) /\ pc = "sendLoop"

\* the service and a subscriber that keeps receiving; the loop's steps are
\* taken when they stay possible
SpecBurstFair ==
    /\ SpecBurst
    /\ WF_vars(Receive)
    /\ WF_vars(SendInit)
    /\ WF_vars(SendAndContinue)

\* no identity occurs twice in the snapshot
OnePerIdentity(data) ==
    \A i, j \in 1..Len(data) : data[i].service = data[j].service => i = j

\* C10: every snapshot built for publication, in the channel, held by the
\* subscriber or returned by a command task has one entry per identity at
\* most.
C10_OneEntryPerIdentity ==
    /\ IsSome(outbox) => OnePerIdentity(Unwrap(outbox).data)
    /\ \A i \in 1..Len(chan) : OnePerIdentity(chan[i].data)
    /\ OnePerIdentity(service.data)
    /\ \A t \in tasks : OnePerIdentity(t.result)

\* the subscriber holds a snapshot of two players that a command task built
C10_Witness ==
    /\ Len(service.data) = 2
    /\ nRecv >= 2
    /\ spawned = 1 /\ tasks = {} /\ calls = 1

(***************************************************************************)
(* Properties of the display rendering.                                    *)
(***************************************************************************)
\* the artists of a, position by position: names at the odd positions and
\* ", " at the even ones
Joined(a) ==
    IF Len(a) = 0 THEN <<>>
    ELSE [i \in 1..(2 * Len(a) - 1) |-> IF i % 2 = 1 THEN a[(i + 1) \div 2] ELSE ", "]

\* C11: the text written for a metadata value is empty when artists and
\* title are both absent, the title when only the title is present, the
\* artists joined by ", " when only the artists are present, and the joined
\* artists, " - " and the title when both are present.
C11_DisplayRendering ==
    display.pc = "shown" =>
        LET a == display.value.artists
            t == display.value.title
        IN  /\ (a = None /\ t = None) => display.text = <<>>
            /\ (a = None /\ IsSome(t)) => display.text = Unwrap(t)
            /\ (IsSome(a) /\ t = None) => display.text = Joined(Unwrap(a))
            /\ (IsSome(a) /\ IsSome(t)) =>
                    display.text = Joined(Unwrap(a)) \o <<" - ">> \o Unwrap(t)

\* artists X and Y with the title Song are written "X, Y - Song"
C11_Witness ==
    /\ display.pc = "shown"
    /\ display.value = [artists |-> Some(<<"X", "Y">>), title |-> Some(<<"Song">>)]
    /\ display.text = <<"X", ", ", "Y", " - ", "Song">>

(***************************************************************************)
(* Properties of the volume round trip.                                    *)
(***************************************************************************)
\* the tasks that task t has become after a step
After(t) == {t2 \in tasks' : t2.id = t.id}

\* a step in which a task makes the call of a Volume(p) command: the one
\* call made is set_volume on the target's proxy with the native value
\* p/100, and the player takes the value
C12_CallStep ==
    \A t \in tasks :
        (t.pc = "call" /\ t.command.kind = "Volume" /\ After(t) # {t}) =>
            /\ calls' = calls + 1
            /\ \A t2 \in After(t) :
                 /\ t2.pc = "build"
                 /\ t2.called = Some([proxy |-> t.proxy, method |-> "set_volume",
                                      arg |-> <<t.command.v[1]>>])
            /\ volume'[t.proxy] = t.command.v[1]

\* a step in which a task that called set_volume(p/100) builds its
\* snapshot while the player still has that volume: the target's entry
\* holds the percentage expected[p]
C12_ReadBackStep(expected) ==
    \A t \in tasks :
        (/\ t.pc = "build" /\ IsSome(t.called) /\ After(t) # {t}
         /\ Unwrap(t.called).method = "set_volume"
         /\ volume[Unwrap(t.called).proxy] = Unwrap(t.called).arg[1]) =>
            /\ calls' = calls
            /\ \A t2 \in After(t) :
                 /\ t2.pc = "done"
                 /\ \E i \in 1..Len(t2.result) :
                      /\ t2.result[i].service = Unwrap(t.called).proxy
                      /\ t2.result[i].volume = Some(expected[Unwrap(t.called).arg[1]])

\* C12 as stated: a Volume(p) command for a present target makes exactly
\* one set_volume call with p/100, and when the read-back is the value set
\* the Update's entry for the target has the percentage p.
C12_RoundTripExact ==
    [][C12_CallStep /\ C12_ReadBackStep([p \in Percentages |-> <<p, 0>>])]_vars

\* (p / 100.0) * 100.0 in f64, for the whole p of 0..100
C12_Product ==
    [p \in Percentages |->
        <<p, IF p \in {7, 14, 28, 55, 56} THEN 1
             ELSE IF p \in {29, 57, 58} THEN -1 ELSE 0>>]

\* C12 as amended: a Volume(p) command for a present target makes exactly
\* one set_volume call with p/100, and when the read-back is the value set
\* the Update's entry for the target has the f64 product (p/100)*100: p
\* itself, except one unit in the last place above p for p in 7, 14, 28,
\* 55, 56 and one below p for p in 29, 57, 58.
C12_RoundTripWithinUlp == [][C12_CallStep /\ C12_ReadBackStep(C12_Product)]_vars

\* Volume(75) on A: one call, and the task's snapshot reads back 75
C12_Witness ==
    /\ calls = 1 /\ volume[PlayerA] = 75
    /\ \E t \in tasks :
         /\ t.pc = "done" /\ Len(t.result) = 1
         /\ t.result[1].service = PlayerA /\ t.result[1].volume = Some(<<75, 0>>)

(***************************************************************************)
(* Properties of the Active state.                                         *)
(***************************************************************************)
\* list a is list b with some elements left out
RECURSIVE IsSubSeq(_, _)
IsSubSeq(a, b) ==
    IF a = <<>> THEN TRUE
    ELSE IF b = <<>> THEN FALSE
    ELSE IF Head(a) = Head(b) THEN IsSubSeq(Tail(a), Tail(b))
    ELSE IsSubSeq(a, Tail(b))

\* a step of the while loop that takes a NameOwner event from the stream
TakesNameOwner ==
    state = "Active" /\ pc = "listen" /\ mux.live /\ mux'.live /\ mux'.owner < mux.owner

\* the event's rediscovery succeeded: one Update is built from the names
\* the bus lists now, and the loop is about to send it and return
C13_Rediscovered ==
    /\ pc' = "sendReturn"
    /\ IsSome(outbox') /\ Unwrap(outbox').tag = "Update" /\ Unwrap(outbox').obs = version
    /\ Range(newNames') = {n \in running : starts_with(n, MPRIS_PLAYER_SERVICE_PREFIX)}
    /\ Len(newNames') = Cardinality(Range(newNames'))
    /\ IsSubSeq(ServiceNames(Unwrap(outbox').data), newNames')
    /\ UNCHANGED <<state, names, chan, nSent>>

\* the event's rediscovery failed: nothing is built, the loop waits on
\* the same stream for the next event
C13_NotRediscovered ==
    /\ pc' = "listen"
    /\ faults' = faults + 1
    /\ UNCHANGED <<state, names, newNames, outbox, chan, nSent>>
    /\ mux' = [mux EXCEPT !.owner = @ - 1]

\* the Update of a NameOwner event is sent once, the new identities become
\* those of Active, and the stream is dropped; until then no event is taken
C13_Returns ==
    pc = "sendReturn" =>
        \/ /\ pc' = "sendReturn"
           /\ UNCHANGED <<state, names, newNames, outbox, nSent>>
           /\ mux'.live /\ mux'.owner >= mux.owner
           /\ mux.meta \subseteq mux'.meta /\ mux.vol \subseteq mux'.vol
        \/ /\ pc' = "start" /\ state' = "Active"
           /\ nSent' = nSent + 1
           /\ Len(chan') = Len(chan) + 1
           /\ chan'[Len(chan')].tag = "Update"
           /\ chan'[Len(chan')].data = Unwrap(outbox).data
           /\ outbox' = None
           /\ names' = newNames
           /\ ~mux'.live

\* in Active an event is taken from a live stream only, and after a return
\* the next stream is built anew: it holds no event of the old one
C13_Rebuilds ==
    /\ (state = "Active" /\ pc = "start") =>
            /\ ~mux.live
            /\ pc' \in {"start", "listen"}
            /\ pc' = "listen" =>
                 (mux'.live /\ mux'.owner = 0 /\ mux'.meta = {} /\ mux'.vol = {}
                  /\ mux'.subs \subseteq running)
    /\ (state = "Active" /\ pc = "listen") => mux.live

\* C13 as stated: every NameOwner event taken from the stream leads to a
\* rediscovery, a rebuilt snapshot, exactly one Update, and the return of
\* Active with the new identities, whose stream is built anew before any
\* further event is taken.
C13_EveryEventRepublishes ==
    [][(TakesNameOwner => C13_Rediscovered) /\ C13_Returns /\ C13_Rebuilds]_vars

\* C13 as amended: a NameOwner event taken from the stream leads to a
\* rediscovery; when it succeeds, to a rebuilt snapshot, exactly one
\* Update, and the return of Active with the new identities, whose stream
\* is built anew before any further event is taken; when it fails, nothing
\* is published and the loop goes on with the same identities and stream.
C13_EventRepublishesUnlessFailed ==
    [][(TakesNameOwner => (C13_Rediscovered \/ C13_NotRediscovered))
        /\ C13_Returns /\ C13_Rebuilds]_vars

\* the Init was built for A alone; B appeared, its NameOwner event was
\* handled, and the loop listens on a new stream that covers B
C13_Witness ==
    /\ state = "Active" /\ pc = "listen" /\ mux.live
    /\ Len(chan) >= 2 /\ chan[1].tag = "Init" /\ chan[1].obs = 0
    /\ chan[2].tag = "Update"
    /\ names = <<PlayerA, PlayerB>> /\ PlayerB \in mux.subs

\* a step of the while loop that takes a Metadata or a Volume event from
\* the stream
TakesProperty ==
    /\ state = "Active" /\ pc = "listen" /\ mux.live /\ mux'.live
    /\ mux'.owner = mux.owner
    /\ mux'.meta \subseteq mux.meta /\ mux'.vol \subseteq mux.vol
    /\ Cardinality(mux'.meta) + Cardinality(mux'.vol) + 1
            = Cardinality(mux.meta) + Cardinality(mux.vol)

\* the event's Update is built from the identities Active holds: its
\* entries are among them, in their order, with every running one whose
\* calls succeeded; nothing else of the loop changes
C14_Rebuilt ==
    /\ pc' = "sendLoop"
    /\ IsSome(outbox') /\ Unwrap(outbox').tag = "Update" /\ Unwrap(outbox').obs = version
    /\ IsSubSeq(ServiceNames(Unwrap(outbox').data), names)
    /\ faults' = faults =>
            \A n \in Range(names) \cap running :
                n \in Range(ServiceNames(Unwrap(outbox').data))
    /\ mux'.subs = mux.subs
    /\ UNCHANGED <<state, names, newNames, chan, nSent>>

\* the Update is sent once and the loop polls the same stream again, with
\* the same identities; until it is sent no event is taken
C14_Continues ==
    pc = "sendLoop" =>
        \/ /\ pc' = "sendLoop"
           /\ UNCHANGED <<state, names, newNames, outbox, nSent>>
           /\ mux'.live /\ mux'.subs = mux.subs /\ mux'.owner >= mux.owner
           /\ mux.meta \subseteq mux'.meta /\ mux.vol \subseteq mux'.vol
        \/ /\ pc' = "listen" /\ state' = "Active"
           /\ nSent' = nSent + 1
           /\ Len(chan') = Len(chan) + 1
           /\ chan'[Len(chan')].tag = "Update"
           /\ chan'[Len(chan')].data = Unwrap(outbox).data
           /\ outbox' = None
           /\ UNCHANGED <<names, newNames, mux>>

\* C14: in Active a Metadata or Volume event rebuilds the snapshot from the
\* identities Active holds, without listing the bus names again, publishes
\* exactly one Update and leaves the state, the identities and the stream
\* as they are.
C14_PropertyEventKeepsState == [][(TakesProperty => C14_Rebuilt) /\ C14_Continues]_vars

\* B runs and is subscribed to but is none of the identities of Active; an
\* event of the stream was handled and its Update lists A alone
C14_Witness ==
    /\ state = "Active" /\ pc = "listen" /\ mux.live /\ mux.owner = 0
    /\ names = <<PlayerA>> /\ PlayerB \in running /\ PlayerB \in mux.subs
    /\ nSent = 2 /\ chan # <<>>
    /\ chan[Len(chan)].tag = "Update"
    /\ ServiceNames(chan[Len(chan)].data) = <<PlayerA>>

\* what C15 asks of one step
C15_ConstructionStep ==
    /\ (state = "Active" /\ pc = "start" /\ ~UNCHANGED <<state, pc, mux, faults>>) =>
            \/ state' = "Active" /\ pc' = "listen" /\ mux'.live
            \/ /\ state' = "Error" /\ ~mux'.live
               /\ faults' = faults + 1
               /\ UNCHANGED <<names, newNames, outbox, chan, nSent>>
    /\ state = "Error" => (state' = "Error" /\ ~mux'.live /\ pc' # "listen")

\* C15: in Active, once an event was handled and the loop is about to build
\* the stream again, a failure to build it leads to Error: the step either
\* yields a live stream or ends in Error with nothing sent, and from Error
\* the stream is not built again.
C15_FailedRebuildIsError == [][C15_ConstructionStep]_vars

\* an Update was sent and the loop returned; the only call that failed is
\* the one of events() after it, and the machine is parked in Error
C15_Witness ==
    /\ state = "Error" /\ pc = "parked" /\ ~mux.live
    /\ nSent >= 2 /\ faults = 1

(***************************************************************************)
(* Properties of a command for a present target.                           *)
(***************************************************************************)
\* the proxy method of each PlayerCommand
C16_Method ==
    [Prev |-> "previous", PlayPause |-> "play_pause", Next |-> "next",
     Volume |-> "set_volume"]

\* a task is performed for a command whose target is in the snapshot: it
\* holds the target's proxy and the identities of the snapshot
C16_Performed ==
    \A t2 \in tasks' :
        (\A t \in tasks : t.id # t2.id) =>
            /\ cmds' = cmds + 1 /\ spawned' = spawned + 1 /\ calls' = calls
            /\ t2.id = cmds' /\ t2.pc = "call" /\ t2.called = None
            /\ t2.names = ServiceNames(service.data)
            /\ \E i \in 1..Len(service.data) :
                 service.data[i].service = t2.proxy /\ service.data[i].proxy = t2.proxy

\* the steps of a task: one call of the command's method on the target's
\* proxy, then one snapshot over the identities the task holds, then one
\* Update, after which the task is gone
C16_TaskSteps ==
    \A t \in tasks :
        After(t) # {t} =>
            \/ /\ t.pc = "call"
               /\ calls' = calls + 1
               /\ After(t) = {[t EXCEPT !.pc = "build", !.command = <<>>, !.proxy = <<>>,
                                        !.called = Some([proxy |-> t.proxy,
                                                         method |-> C16_Method[t.command.kind],
                                                         arg |-> IF t.command.kind = "Volume"
                                                                 THEN <<t.command.v[1]>>
                                                                 ELSE <<>>])]}
            \/ /\ t.pc = "build"
               /\ calls' = calls
               /\ \E t2 \in tasks' :
                    /\ After(t) = {t2}
                    /\ t2.pc = "done" /\ t2.names = t.names /\ t2.obs = version
                    /\ IsSubSeq(ServiceNames(t2.result), t.names)
                    /\ faults' = faults =>
                         \A n \in Range(t.names) \cap running :
                             n \in Range(ServiceNames(t2.result))
            \/ /\ t.pc = "done"
               /\ calls' = calls
               /\ After(t) = {}
               /\ service'.data = t.result

\* C16: a command whose target is in the snapshot makes exactly one proxy
\* call, the one of its command, on the target's proxy; whether the call
\* returns Ok or Err, the snapshot is then rebuilt over the identities of
\* the snapshot the command was issued against, and one Update is produced.
C16_PresentCommandRepublishes == [][C16_Performed /\ C16_TaskSteps]_vars

\* Volume(75) for A: the call failed (A runs and its volume never changed),
\* and the task rebuilt the snapshot of A all the same
C16_Witness ==
    /\ version = 0 /\ PlayerA \in running /\ volume[PlayerA] = 50
    /\ calls = 1 /\ faults = 1
    /\ \E t \in tasks :
         /\ t.pc = "done"
         /\ t.called = Some([proxy |-> PlayerA, method |-> "set_volume", arg |-> <<75>>])
         /\ ServiceNames(t.result) = <<PlayerA>>

(***************************************************************************)
(* Properties of the event multiplexer.                                    *)
(***************************************************************************)
\* what C17 asks of one step
C17_MultiplexerStep ==
    /\ mux'.live =>
            /\ mux'.subs \subseteq Range(names')
            /\ faults' = 0 => \A n \in Range(names') \cap running' : n \in mux'.subs
    /\ (mux.live /\ mux'.live /\ mux'.owner > mux.owner) =>
            \E n \in running \cup running' :
                /\ starts_with(n, MPRIS_PLAYER_SERVICE_PREFIX)
                /\ (n \in running) # (n \in running')

\* C17: the stream built by events() holds the name-owner stream filtered
\* to the names with the player prefix, and the metadata and volume
\* subscriptions of the identities that Active holds and of no other bus
\* name (of every running one of them when no call has failed).
C17_SubscribesToKnownEndpoints == [][C17_MultiplexerStep]_vars

(***************************************************************************)
(* Properties of the concurrent snapshot build.                            *)
(***************************************************************************)
Ready(i) == join.fut[i].pc = "ready"

\* the queries are dispatched together: the call a future awaits can return
\* whatever the other futures are waiting for
C18_Concurrent ==
    \A i \in 1..Len(join.fut) :
        (join.pc = "polling" /\ ~Ready(i)) =>
            ENABLED (\E ok \in BOOLEAN : CallReturns(i, ok))

\* the build can complete as soon as the responsive endpoints have answered
C18_CompletesOnResponsive ==
    (/\ join.pc = "polling"
     /\ \E i \in 1..Len(join.fut) : join.names[i] \notin join.hung
     /\ \A i \in 1..Len(join.fut) : join.names[i] \notin join.hung => Ready(i)) =>
        ENABLED JoinAllReady

\* the build can complete exactly when every query has returned, and its
\* result then has the entries of the futures whose proxy connected
C18_CompletesWhenAllReturned ==
    /\ join.pc = "polling" =>
            (ENABLED JoinAllReady <=> \A i \in 1..Len(join.fut) : Ready(i))
    /\ join.pc = "done" =>
            /\ \A i \in 1..Len(join.fut) : Ready(i)
            /\ ServiceNames(join.result) =
                    SelectSeq(join.names,
                              LAMBDA s : \E i \in 1..Len(join.fut) :
                                            join.names[i] = s /\ join.fut[i].out.conn)

\* C18 as stated: the queries are dispatched together, the build completes
\* once the responsive endpoints have answered, and it completes in the
\* end when every call returns a value or a timeout error.
C18_BuildCompletesOnResponsive ==
    /\ []C18_Concurrent
    /\ []C18_CompletesOnResponsive
    /\ (join.pc = "polling") ~> (join.pc = "done")

\* C18 as amended: the queries are dispatched together, the build
\* completes once every query has returned (that of a hung endpoint by its
\* timeout error, the answers of the others being held until then), and it
\* completes in the end when every call returns a value or a timeout error.
C18_BuildCompletesWhenAllReturned ==
    /\ []C18_Concurrent
    /\ []C18_CompletesWhenAllReturned
    /\ (join.pc = "polling") ~> (join.pc = "done")

\* a build over A and a hung endpoint is complete: the hung one timed out
\* and was dropped, A answered
C18_Witness ==
    /\ join.pc = "done"
    /\ Len(join.names) = 2 /\ Cardinality(join.hung) = 1
    /\ ServiceNames(join.result) = <<PlayerA>>
    /\ IsSome(join.result[1].volume)

(***************************************************************************)
(* Properties of the identities of Active.                                 *)
(***************************************************************************)
\* a discovery's snapshot waits to be sent together with the names the
\* discovery listed, and its entries are among them
C19_Discovered ==
    pc \in {"send", "sendReturn"} =>
        /\ IsSome(outbox)
        /\ IsSubSeq(ServiceNames(Unwrap(outbox).data), newNames)

\* what C19 asks of one step: the identities change only when the snapshot
\* of a discovery is sent, and become the names that discovery listed; a
\* snapshot sent has its entries among the identities Active holds from
\* then on; a NameOwner event whose rediscovery fails changes nothing
C19_IdentityStep ==
    /\ C19_Discovered
    /\ names' # names =>
            /\ pc \in {"send", "sendReturn"}
            /\ nSent' = nSent + 1
            /\ names' = newNames
            /\ chan'[Len(chan')].data = Unwrap(outbox).data
    /\ nSent' # nSent =>
            /\ nSent' = nSent + 1
            /\ state' = "Active"
            /\ IsSubSeq(ServiceNames(chan'[Len(chan')].data), names')
    /\ (TakesNameOwner /\ pc' = "listen") =>
            /\ UNCHANGED <<state, names, newNames, outbox, chan, nSent>>
            /\ mux' = [mux EXCEPT !.owner = @ - 1]

\* C19: the identities of Active are those of the listing behind the Init
\* or NameOwner Update published last, every snapshot the loop publishes
\* has its entries among the identities Active holds once it is sent, and a
\* failed rediscovery publishes nothing and keeps identities and stream.
C19_IdentitiesFollowPublished == [][C19_IdentityStep]_vars

\* A left while the stream was live, the rediscovery of its NameOwner
\* event failed: nothing but the Init was sent, and the loop listens on the
\* same stream with A among its identities
C19_Witness ==
    /\ state = "Active" /\ pc = "listen" /\ mux.live /\ mux.owner = 0
    /\ PlayerA \in mux.subs /\ PlayerA \notin running
    /\ names = <<PlayerA>> /\ nSent = 1 /\ faults = 1

(***************************************************************************)
(* Properties of Commander.                                                *)
(***************************************************************************)
\* what the calls of give_receiver returned so far: the receiver first,
\* None ever after, and the cell is empty from the first call on
C20_GivenOnce ==
    /\ \A i \in 1..Len(commander.returned) :
            commander.returned[i] = IF i = 1 THEN Some("receiver") ELSE None
    /\ commander.pc = "live" =>
            (commander.receiver = None <=> commander.returned # <<>>)

\* a call of give_receiver touches neither the channel nor its sender, and
\* a send succeeds and queues its message whenever the receiver exists
C20_SenderStep ==
    /\ commander'.returned # commander.returned =>
            /\ commander'.queue = commander.queue
            /\ commander'.sends = commander.sends
            /\ commander'.closed = commander.closed
    /\ commander'.sends # commander.sends =>
            /\ Len(commander'.sends) = Len(commander.sends) + 1
            /\ commander'.sends[Len(commander'.sends)].ok = ~commander.closed
            /\ ~commander.closed =>
                    /\ Len(commander'.queue) = Len(commander.queue) + 1
                    /\ SubSeq(commander'.queue, 1, Len(commander.queue)) = commander.queue

\* C20: over the calls of give_receiver on one Commander the first returns
\* the receiver and every later one None, and the sender reached through
\* Deref sends before and after them.
C20_ReceiverGivenOnce == [][C20_GivenOnce /\ C20_GivenOnce' /\ C20_SenderStep]_vars

\* three calls of give_receiver, a send that succeeded before the first
\* and one that succeeded after it
C20_Witness ==
    /\ Len(commander.returned) = MaxGives
    /\ \E i, j \in 1..Len(commander.sends) :
            /\ commander.sends[i].ok /\ commander.sends[i].gives = 0
            /\ commander.sends[j].ok /\ commander.sends[j].gives >= 2

====
